---- MODULE Spec2Model ----
(***************************************************************************)
(* State-machine model of braincell's sodium channels                      *)
(* (src/braincell/channel/sodium.py): the conservation normalizer, the     *)
(* derived remainder, the derivative computation and the implicit step of  *)
(* INa_Rsg, and INa_Rsg_B, the gates p and q of INa_p3q_markov and the     *)
(* empty hooks of SodiumChannel, driven through the channel lifecycle;     *)
(* the current they return; the implicit step on a stiff rate law and on   *)
(* a 2-state channel; the array shapes update_state goes through; and      *)
(* reset_state of PotassiumFixed (src/braincell/ion/potassium.py).         *)
(*                                                                         *)
(* Arithmetic.  Occupancies are real numbers; the model computes with      *)
(* them exactly.  A value is a quotient n/d of two polynomials in eps      *)
(* with integer coefficients, where eps stands for the normalizer's        *)
(* constant 10**(-12).  Every coefficient is a TLC integer, hence below    *)
(* 2^31 < 10^12 / 400 in magnitude, so the sign of a polynomial at         *)
(* eps = 10^-12 is the sign of its lowest-order non-zero coefficient:      *)
(* comparisons are exact, none is approximated.  Floating-point rounding   *)
(* is not modelled; a non-finite float (NaN or inf) is the flag nan.       *)
(***************************************************************************)
EXTENDS Integers, Sequences, FiniteSets, TLC

-----------------------------------------------------------------------------
(* Integers *)

Abs(x) == IF x < 0 THEN -x ELSE x

Sgn(x) == IF x < 0 THEN -1 ELSE IF x > 0 THEN 1 ELSE 0

\* the element of a one-element set: { e : v \in {w} } evaluates w once
Only(S) == CHOOSE x \in S : TRUE

Max(x, y) == IF x < y THEN y ELSE x

RECURSIVE GCD(_, _)
GCD(a, b) == IF b = 0 THEN Abs(a) ELSE GCD(b, a % Abs(b))

-----------------------------------------------------------------------------
(* Polynomials in eps: <<a0, a1, ..., ak>> is a0 + a1*eps + ... + ak*eps^k, *)
(* without trailing zeros; <<>> is 0.                                       *)

RECURSIVE PTrim(_)
PTrim(p) ==
  IF p = <<>> THEN <<>>
  ELSE IF p[Len(p)] = 0 THEN PTrim(SubSeq(p, 1, Len(p) - 1))
  ELSE p

PCoef(p, i) == IF i <= Len(p) THEN p[i] ELSE 0

PInt(k) == IF k = 0 THEN <<>> ELSE <<k>>

PAdd(p, q) ==
  IF p = <<>> THEN q
  ELSE IF q = <<>> THEN p
  ELSE PTrim([i \in 1..Max(Len(p), Len(q)) |-> PCoef(p, i) + PCoef(q, i)])

PScale(k, p) == IF k = 0 THEN <<>> ELSE [i \in 1..Len(p) |-> k * p[i]]

PNeg(p) == [i \in 1..Len(p) |-> 0 - p[i]]

RECURSIVE PConv(_, _, _, _)
PConv(p, q, k, i) ==
  IF i > Len(p) THEN 0
  ELSE (IF k - i + 1 >= 1 /\ k - i + 1 <= Len(q) THEN p[i] * q[k - i + 1] ELSE 0)
       + PConv(p, q, k, i + 1)

PMul(p, q) ==
  IF p = <<>> \/ q = <<>> THEN <<>>
  ELSE IF Len(q) = 1 THEN PScale(q[1], p)
  ELSE IF Len(p) = 1 THEN PScale(p[1], q)
  ELSE [k \in 1..(Len(p) + Len(q) - 1) |-> PConv(p, q, k, 1)]

\* The sign of p at eps = 10^-12: that of its lowest-order non-zero coefficient.
PSign(p) ==
  IF p = <<>> THEN 0
  ELSE LET i == CHOOSE j \in 1..Len(p) : p[j] # 0 /\ \A h \in 1..(j - 1) : p[h] = 0
       IN Sgn(p[i])

RECURSIVE PContentFrom(_, _)
PContentFrom(p, i) == IF i > Len(p) THEN 0 ELSE GCD(p[i], PContentFrom(p, i + 1))

\* gcd of the coefficients (0 for the zero polynomial)
PContent(p) == PContentFrom(p, 1)

PDivInt(p, g) == [i \in 1..Len(p) |-> p[i] \div g]

-----------------------------------------------------------------------------
(* Values: [nan, n, d] is n/d with d > 0, or a non-finite float when nan.   *)

\* n/d with no common integer factor; 0 is 0/1
Val(num, den) ==
  IF num = <<>> THEN [nan |-> FALSE, n |-> <<>>, d |-> <<1>>]
  ELSE LET g == GCD(PContent(num), PContent(den))
       IN [nan |-> FALSE, n |-> PDivInt(num, g) \o <<>>, d |-> PDivInt(den, g) \o <<>>]

NInt(k) == Val(PInt(k), <<1>>)

NRat(k, q) == Val(PInt(k), <<q>>)

Zero == NInt(0)

One == NInt(1)

NaN == [nan |-> TRUE, n |-> <<>>, d |-> <<1>>]

\* a divisor offset of 1 in place of 10**(-12)
EpsOne == [nan |-> FALSE, n |-> <<1>>, d |-> <<1>>]

\* 10**(-12), sodium.py:585
Eps == Val(<<0, 1>>, <<1>>)

\* 1e-9, the tolerance of the conservation property (1000 * 10^-12)
Tol == Val(<<0, 1000>>, <<1>>)

\* p divided by the gcd of its coefficients (p # 0)
PPrim(p) == PDivInt(p, PContent(p)) \o <<>>

LCM(a, b) == (a \div GCD(a, b)) * b

\* Denominators that differ by an integer factor only are brought to their
\* least common multiple; others are cross-multiplied.
NAdd(a, b) ==
  IF a.nan \/ b.nan THEN NaN
  ELSE IF a.d = b.d THEN Val(PAdd(a.n, b.n), a.d)
  ELSE IF a.n = <<>> THEN b
  ELSE IF b.n = <<>> THEN a
  ELSE LET ca == PContent(a.d)
           cb == PContent(b.d)
           pa == PPrim(a.d)
           pb == PPrim(b.d)
       IN IF pa = pb
          THEN LET L == LCM(ca, cb)
               IN Val(PAdd(PScale(L \div ca, a.n), PScale(L \div cb, b.n)), PScale(L, pa))
          ELSE LET g == GCD(ca, cb)
                   ad == PScale(ca \div g, pa)
                   bd == PScale(cb \div g, pb)
               IN Val(PAdd(PMul(a.n, bd), PMul(b.n, ad)), PMul(a.d, bd))

NNeg(a) == IF a.nan THEN NaN ELSE Val(PNeg(a.n), a.d)

NSub(a, b) == NAdd(a, NNeg(b))

\* an integer times a value
NScale(k, a) == IF a.nan THEN NaN ELSE Val(PScale(k, a.n), a.d)

\* a / b for b > 0
NDiv(a, b) ==
  IF a.nan \/ b.nan THEN NaN
  ELSE IF PPrim(a.d) = PPrim(b.d)
    THEN Val(PScale(PContent(b.d), a.n), PScale(PContent(a.d), b.n))
  ELSE Val(PMul(a.n, b.d), PMul(a.d, b.n))

\* a value divided by a positive integer
NDivInt(a, k) == IF a.nan THEN NaN ELSE Val(a.n, PScale(k, a.d))

\* the product of two values
NMul(a, b) == IF a.nan \/ b.nan THEN NaN ELSE Val(PMul(a.n, b.n), PMul(a.d, b.d))

\* -1, 0, 1; a NaN has no sign
NSign(a) == PSign(a.n)

NEq(a, b) == ~a.nan /\ ~b.nan /\ NSign(NSub(a, b)) = 0

NLe(a, b) == ~a.nan /\ ~b.nan /\ NSign(NSub(a, b)) <= 0

NAbs(a) == IF NSign(a) < 0 THEN NNeg(a) ELSE a

\* |a - b| <= 1e-9
NClose(a, b) == ~a.nan /\ ~b.nan /\ NLe(NAbs(NSub(a, b)), Tol)

\* no clamp
NKeep(a) == a

\* u.math.maximum(x, 0): a NaN stays a NaN
NMax0(a) == IF a.nan THEN NaN ELSE IF NSign(a) < 0 THEN Zero ELSE a

a \oplus b == NAdd(a, b)

a \ominus b == NSub(a, b)

\* occupancy * rate: a value times an integer rate
a \odot k == NScale(k, a)

-----------------------------------------------------------------------------
(* Rate table.  The rate constants of __init__ (sodium.py:461-483) and the  *)
(* exponentials of the rate lambdas take real values (alfac = 150^(1/4))    *)
(* that have no exact representation; the model runs the same rate          *)
(* formulas over a bounded family of integer rate laws (Params) and two     *)
(* voltage levels, keeping which rates depend on V and in which direction.  *)

\* membrane voltage levels (per compartment); NaNVolt is a non-finite voltage
Volts == {0, 1}

NaNVolt == -1

\* a float m * 10^e
Float(m, e) == [mant |-> m, exp10 |-> e]

\* the lengths of the exponentials, sodium.py:472-477
x1 == Float(20, 0)

x2 == Float(-20, 0)

x3 == Float(1, 12)

x4 == Float(-1, 12)

x5 == Float(1, 12)

x6 == Float(-25, 0)

\* u.math.exp((V / u.mV) / x) on the two voltage levels: 1 when |x| is
\* 1e12, rising in V for x > 0 and falling in V for x < 0
exp(V, x) ==
  IF x.exp10 >= 12 THEN 1
  ELSE IF x.mant > 0 THEN (IF V = 0 THEN 1 ELSE 2)
  ELSE (IF V = 0 THEN 2 ELSE 1)

\* (Oon / Con) ** (1 / 4) for the quotients of the family
Root4(p, q) == CHOOSE r \in 0..2 : r * r * r * r * q = p

\* self of INa_Rsg / INa_Rsg_B after __init__: the rate constants and phi
Channel(alpha, beta, gamma, delta, epsilon, zeta, Con, Coff, Oon, Ooff, phi) ==
  [alpha |-> alpha, beta |-> beta, gamma |-> gamma, delta |-> delta,
   epsilon |-> epsilon, zeta |-> zeta, Con |-> Con, Coff |-> Coff,
   Oon |-> Oon, Ooff |-> Ooff, phi |-> phi,
   alfac |-> Root4(Oon, Con), btfac |-> Root4(Ooff, Coff)]

f01(self, V) == 4 * self.alpha * exp(V, x1) * self.phi
f02(self, V) == 3 * self.alpha * exp(V, x1) * self.phi
f03(self, V) == 2 * self.alpha * exp(V, x1) * self.phi
f04(self, V) == 1 * self.alpha * exp(V, x1) * self.phi
f0O(self, V) == self.gamma * exp(V, x3) * self.phi
fip(self, V) == self.epsilon * exp(V, x5) * self.phi
f11(self, V) == 4 * self.alpha * self.alfac * exp(V, x1) * self.phi
f12(self, V) == 3 * self.alpha * self.alfac * exp(V, x1) * self.phi
f13(self, V) == 2 * self.alpha * self.alfac * exp(V, x1) * self.phi
f14(self, V) == 1 * self.alpha * self.alfac * exp(V, x1) * self.phi
f1n(self, V) == self.gamma * exp(V, x3) * self.phi
fi1(self, V) == self.Con * self.phi
fi2(self, V) == self.Con * self.alfac * self.phi
fi3(self, V) == self.Con * self.alfac * self.alfac * self.phi
fi4(self, V) == self.Con * self.alfac * self.alfac * self.alfac * self.phi
fi5(self, V) == self.Con * self.alfac * self.alfac * self.alfac * self.alfac * self.phi
fin(self, V) == self.Oon * self.phi

b01(self, V) == 1 * self.beta * exp(V, x2) * self.phi
b02(self, V) == 2 * self.beta * exp(V, x2) * self.phi
b03(self, V) == 3 * self.beta * exp(V, x2) * self.phi
b04(self, V) == 4 * self.beta * exp(V, x2) * self.phi
b0O(self, V) == self.delta * exp(V, x4) * self.phi
bip(self, V) == self.zeta * exp(V, x6) * self.phi
b11(self, V) == 1 * self.beta * self.btfac * exp(V, x2) * self.phi
b12(self, V) == 2 * self.beta * self.btfac * exp(V, x2) * self.phi
b13(self, V) == 3 * self.beta * self.btfac * exp(V, x2) * self.phi
b14(self, V) == 4 * self.beta * self.btfac * exp(V, x2) * self.phi
b1n(self, V) == self.delta * exp(V, x4) * self.phi
bi1(self, V) == self.Coff * self.phi
bi2(self, V) == self.Coff * self.btfac * self.phi
bi3(self, V) == self.Coff * self.btfac * self.btfac * self.phi
bi4(self, V) == self.Coff * self.btfac * self.btfac * self.btfac * self.phi
bi5(self, V) == self.Coff * self.btfac * self.btfac * self.btfac * self.btfac * self.phi
bin(self, V) == self.Ooff * self.phi

-----------------------------------------------------------------------------
(* INa_Rsg.update_state: the right-hand side and its linearization          *)

\* number of stacked states
N == 12

NaNVec == [i \in 1..N |-> NaN]

\* a right-hand side in which every state only drains at the rate fin
rhs_drain(self, S, one, V) ==
  IF V = NaNVolt THEN NaNVec
  ELSE [i \in 1..N |-> Zero \ominus (S[i] \odot fin(self, V))]

\* rhs of update_state for one column: S is the stacked state of one
\* compartment (C1..C5, I1..I5, O, B), one the constant 1 of I6 (its tangent
\* is 0), V the voltage the rates are evaluated at.  Every row holds a
\* V-dependent rate, so a non-finite V makes every row non-finite.
rhs(self, S, one, V) ==
  IF V = NaNVolt THEN NaNVec
  ELSE
  LET C1 == S[1]  C2 == S[2]  C3 == S[3]  C4 == S[4]  C5 == S[5]
      I1 == S[6]  I2 == S[7]  I3 == S[8]  I4 == S[9]  I5 == S[10]
      O == S[11]  B == S[12]
      I6 == one \ominus (C1 \oplus C2 \oplus C3 \oplus C4 \oplus C5 \oplus I1 \oplus I2
                         \oplus I3 \oplus I4 \oplus I5 \oplus O \oplus B)
      dC1 == ((I1 \odot bi1(self, V)) \oplus (C2 \odot b01(self, V)))
               \ominus (C1 \odot (fi1(self, V) + f01(self, V)))
      dC2 == ((C1 \odot f01(self, V)) \oplus (I2 \odot bi2(self, V)) \oplus (C3 \odot b02(self, V)))
               \ominus (C2 \odot (b01(self, V) + fi2(self, V) + f02(self, V)))
      dC3 == ((C2 \odot f02(self, V)) \oplus (I3 \odot bi3(self, V)) \oplus (C4 \odot b03(self, V)))
               \ominus (C3 \odot (b02(self, V) + fi3(self, V) + f03(self, V)))
      dC4 == ((C3 \odot f03(self, V)) \oplus (I4 \odot bi4(self, V)) \oplus (C5 \odot b04(self, V)))
               \ominus (C4 \odot (b03(self, V) + fi4(self, V) + f04(self, V)))
      dC5 == ((C4 \odot f04(self, V)) \oplus (I5 \odot bi5(self, V)) \oplus (O \odot b0O(self, V)))
               \ominus (C5 \odot (b04(self, V) + fi5(self, V) + f0O(self, V)))
      dI1 == ((C1 \odot fi1(self, V)) \oplus (I2 \odot b11(self, V)))
               \ominus (I1 \odot (bi1(self, V) + f11(self, V)))
      dI2 == ((I1 \odot f11(self, V)) \oplus (C2 \odot fi2(self, V)) \oplus (I3 \odot b12(self, V)))
               \ominus (I2 \odot (b11(self, V) + bi2(self, V) + f12(self, V)))
      dI3 == ((I2 \odot f12(self, V)) \oplus (C3 \odot fi3(self, V)) \oplus (I4 \odot b13(self, V)))
               \ominus (I3 \odot (b12(self, V) + bi3(self, V) + f13(self, V)))
      dI4 == ((I3 \odot f13(self, V)) \oplus (C4 \odot fi4(self, V)) \oplus (I5 \odot b14(self, V)))
               \ominus (I4 \odot (b13(self, V) + bi4(self, V) + f14(self, V)))
      dI5 == ((I4 \odot f14(self, V)) \oplus (C5 \odot fi5(self, V)) \oplus (I6 \odot b1n(self, V)))
               \ominus (I5 \odot (b14(self, V) + bi5(self, V) + f1n(self, V)))
      dO == ((C5 \odot f0O(self, V)) \oplus (B \odot bip(self, V)) \oplus (I6 \odot bin(self, V)))
               \ominus (O \odot (b0O(self, V) + fip(self, V) + fin(self, V)))
      dB == (O \odot fip(self, V)) \ominus (B \odot bip(self, V))
  IN <<dC1, dC2, dC3, dC4, dC5, dI1, dI2, dI3, dI4, dI5, dO, dB>>

\* the unit tangent e_j
Unit(j) == [i \in 1..N |-> IF i = j THEN One ELSE Zero]

\* the integer a value stands for (the entries of the Jacobian are sums of
\* integer rates)
IntOf(a) == IF a.n = <<>> THEN 0 ELSE a.n[1]

\* jax.jacfwd(rhs_point) at voltage V: column j is the push-forward of the
\* tangent e_j through rhs, in which the constant 1 of I6 has tangent 0.
\* rhs is affine in S, so the Jacobian does not depend on the point.
Jacobian(self, V) ==
  LET col == [j \in 1..N |-> rhs(self, Unit(j), Zero, V)]
  IN [i \in 1..N |-> [j \in 1..N |-> IntOf(col[j][i])] \o <<>>] \o <<>>

-----------------------------------------------------------------------------
(* u.math.linalg.solve: exact rationals <<n, d>> with d > 0, in lowest terms *)

Q(n, d) ==
  LET g == GCD(n, d)
  IN IF d < 0 THEN <<(0 - n) \div g, (0 - d) \div g>> ELSE <<n \div g, d \div g>>

QSub(a, b) ==
  LET l == LCM(a[2], b[2])
  IN Q(a[1] * (l \div a[2]) - b[1] * (l \div b[2]), l)

\* common factors are cancelled before the products are formed
QMul(a, b) ==
  LET g1 == GCD(a[1], b[2])
      g2 == GCD(b[1], a[2])
  IN Q((a[1] \div g1) * (b[1] \div g2), (a[2] \div g2) * (b[2] \div g1))

QDiv(a, b) == QMul(a, <<b[2], b[1]>>)

\* Gauss-Jordan elimination of the augmented matrix [lhs | Id] from column k
\* on, with row exchange; <<>> when a column has no pivot (lhs is singular)
RECURSIVE GaussJordan(_, _)
GaussJordan(A, k) ==
  IF k > N THEN A
  ELSE IF \A i \in k..N : A[i][k][1] = 0 THEN <<>>
  ELSE
    LET p == CHOOSE i \in k..N : A[i][k][1] # 0 /\ \A h \in k..(i - 1) : A[h][k][1] = 0
        sw == [i \in 1..N |-> IF i = k THEN A[p] ELSE IF i = p THEN A[k] ELSE A[i]]
        rowk == [j \in 1..(2 * N) |-> QDiv(sw[k][j], sw[k][k])] \o <<>>
        nxt == [i \in 1..N |->
                 IF i = k THEN rowk
                 ELSE IF sw[i][k][1] = 0 THEN sw[i]
                 ELSE [j \in 1..(2 * N) |-> QSub(sw[i][j], QMul(sw[i][k], rowk[j]))] \o <<>>]
               \o <<>>
    IN GaussJordan(nxt, k + 1)

RECURSIVE RowLCM(_, _)
RowLCM(row, j) == IF j > Len(row) THEN 1 ELSE LCM(row[j][2], RowLCM(row, j + 1))

RECURSIVE MatLCM(_, _)
MatLCM(A, i) == IF i > Len(A) THEN 1 ELSE LCM(RowLCM(A[i], 1), MatLCM(A, i + 1))

\* The inverse of the integer matrix L as [num, den]: L^-1 = num / den with
\* num an integer matrix, or [sing |-> TRUE] when L is singular.
Inverse(L) ==
  LET aug == [i \in 1..N |->
               [j \in 1..(2 * N) |->
                 IF j <= N THEN <<L[i][j], 1>>
                 ELSE IF j - N = i THEN <<1, 1>> ELSE <<0, 1>>] \o <<>>] \o <<>>
      G == GaussJordan(aug, 1)
  IN IF G = <<>> THEN [sing |-> TRUE, num |-> <<>>, den |-> 1]
     ELSE LET inv == [i \in 1..N |-> SubSeq(G[i], N + 1, 2 * N)]
              D == MatLCM(inv, 1)
          IN [sing |-> FALSE,
              num |-> [i \in 1..N |-> [j \in 1..N |-> inv[i][j][1] * (D \div inv[i][j][2])] \o <<>>] \o <<>>,
              den |-> D]

-----------------------------------------------------------------------------
(* INa_Rsg.update_state, sodium.py:683-752, on a batch of M compartments:   *)
(* State_value[m] is the stacked state of compartment m (State_value.T),   *)
(* V[m] its voltage.                                                        *)

Finite(V) == V # NaNVolt

HasNaN(S) == \E i \in 1..Len(S) : S[i].nan

\* the time step as a fraction: dt = get_dt() / 2
Step(get_dt) == [num |-> get_dt, den |-> 2]

RECURSIVE Dot(_, _, _)
\* sum over j >= k of row[j] * S[j] for an integer row
Dot(row, S, k) ==
  IF k > Len(row) THEN Zero
  ELSE IF row[k] = 0 THEN Dot(row, S, k + 1)
  ELSE (S[k] \odot row[k]) \oplus Dot(row, S, k + 1)

\* A @ S
MatVec(A, S) ==
  Only({ [i \in 1..Len(A0) |-> Dot(A0[i], S0, 1)] \o <<>> : A0 \in {A}, S0 \in {S} })

\* rhs_point(S_point) = rhs(S_point.reshape(N, 1))[:, 0]: the (N, 1) point
\* broadcasts against the whole voltage vector and column 0 is returned, so
\* the rates are taken at the voltage of the first compartment
rhs_point(self, S_point, one, V) == rhs(self, S_point, one, V[1])

\* jax.jacfwd(rhs_point): rhs_point is affine, so its Jacobian is the same at
\* every point; column j is the push-forward of the tangent e_j
jacfwd(self, V) ==
  Only({ [i \in 1..N |-> [j \in 1..N |-> IntOf(col[j][i])] \o <<>>] \o <<>> :
         col \in {[j \in 1..N |-> rhs_point(self, Unit(j), Zero, V)] \o <<>>} })

\* lhs = Id - dt * A, times dt.den to stay in the integers
lhs(A, dt) ==
  [i \in 1..N |->
    [j \in 1..N |-> (IF i = j THEN dt.den ELSE 0) - dt.num * A[i][j]] \o <<>>] \o <<>>

\* rhs_val = State_value.T + dt * b_val, times dt.den
rhs_val(S, b, dt) == [i \in 1..N |-> (S[i] \odot dt.den) \oplus (b[i] \odot dt.num)] \o <<>>

\* the rate laws the model steps, as self.alpha, beta, gamma, delta, epsilon,
\* zeta, Con, Coff, Oon, Ooff, phi: a law with rates of one size; the same
\* law with phi = 0, every rate zero; a stiff law, the block O -> B 400
\* times faster than every other transition; a law whose unblock B -> O
\* falls by 3 from the lower to the higher voltage
Channels ==
  << Channel(0, 0, 1, 1, 1, 1, 1, 1, 1, 1, 1),
     Channel(0, 0, 1, 1, 1, 1, 1, 1, 1, 1, 0),
     Channel(0, 0, 1, 1, 400, 1, 1, 1, 1, 1, 1),
     Channel(0, 0, 1, 1, 1, 3, 1, 1, 1, 1, 1) >>

Plain == Channels[1]

ZeroRates == Channels[2]

Stiff == Channels[3]

Skew == Channels[4]

\* values of brainstate.environ.get_dt()
Dts == 1..2

\* The Jacobian of rhs_point for each rate law and first-compartment
\* voltage: it depends on nothing else.
JacobianTable ==
  [k \in 1..Len(Channels) |->
    [v \in 1..2 |-> jacfwd(Channels[k], <<v - 1>>)] \o <<>>] \o <<>>

\* The inverse of lhs for each rate law, first-compartment voltage and time
\* step: lhs depends on nothing else.
InverseTable ==
  Only({ [k \in 1..Len(Channels) |->
           [v \in 1..2 |->
             [d \in Dts |-> Inverse(lhs(J[k][v], Step(d)))] \o <<>>] \o <<>>] \o <<>> :
         J \in {JacobianTable} })

-----------------------------------------------------------------------------
(* The channel instance and its driver                                      *)

VARIABLES
  kind,      \* the channel class
  chan,      \* self after __init__: the rate law
  env_dt,    \* brainstate.environ.get_dt()
  volts,     \* the voltages the membrane can take
  shapes,    \* the lengths the voltage array of a step can have
  jac,       \* JacobianTable, computed once at construction
  lhs_inv,   \* InverseTable, computed once at construction
  life,      \* lifecycle state of the channel
  ran,       \* the hooks run so far in the current (or last) step
  steps,     \* completed integration steps
  Vm,        \* the membrane voltage of each compartment during the step
  st,        \* st[m][c]: value of state c in compartment m (cells and held remainder)
  held_set,  \* whether the attribute holding the remainder has been assigned
  deriv,     \* deriv[m][c]: the derivative field of cell c
  prev,      \* st before the last operation
  last,      \* the last operation
  writes,    \* external writes so far
  resets,    \* reset_state calls so far
  I_out,     \* what the last call returned
  euler,     \* the explicit-Euler reference: where it started, where it is
  two,       \* the 2-state channel: bounds of open and closed, steps taken
  dims,      \* the array shapes: size of the channel, shape of a cell's value
  ion        \* a PotassiumFixed: E, C, its child nodes, the calls it made

vars == <<kind, chan, env_dt, volts, shapes, jac, lhs_inv, life, ran, steps, Vm, st,
          held_set, deriv, prev, last, writes, resets, I_out, euler, two, dims, ion>>

\* number of compartments (size of the batch axis)
BatchSize == 2

MaxSteps == 1

MaxWrites == 1

MaxResets == 1

\* repeated steps of the stiff law
MaxStiffSteps == 2

\* largest extent of an axis of the size and of the batch axis
MaxDim == 3

\* update_state calls on one allocation of the cells
MaxShapeSteps == 2

\* nodes under the ion
MaxChildren == 2

\* reset_state calls on the ion
MaxIonResets == 2

Comps == 1..BatchSize

Names == <<"C1", "C2", "C3", "C4", "C5", "I1", "I2", "I3", "I4", "I5", "O", "B", "I6">>

\* every state of every class: the 13 of the multi-state scheme, p and q of
\* INa_p3q_markov
NameSet == {Names[i] : i \in 1..Len(Names)} \cup {"p", "q"}

\* the classes with the 13-state scheme
MultiState == {"INa_Rsg", "INa_Rsg_B"}

\* the channel classes
Kinds == MultiState \cup {"INa_p3q_markov", "SodiumChannel"}

\* the Differential State Cells of a class, in the order of its init_state
\* normalization / write-back
Tracked(k) ==
  IF k = "INa_Rsg"
  THEN <<"C1", "C2", "C3", "C4", "C5", "I1", "I2", "I3", "I4", "I5", "O", "B">>
  ELSE IF k = "INa_Rsg_B"
  THEN <<"C1", "C2", "C3", "C4", "C5", "I1", "I2", "I3", "I4", "I5", "O", "I6">>
  ELSE IF k = "INa_p3q_markov" THEN <<"p", "q">>
  ELSE <<>>

\* the remainder, held as a plain array attribute: self.I6 / self.B
Held(k) == IF k = "INa_Rsg" THEN "I6" ELSE IF k = "INa_Rsg_B" THEN "B" ELSE ""

InSeq(c, q) == \E i \in 1..Len(q) : q[i] = c

\* the position of a rate law in Channels
RateLaw(self) == CHOOSE k \in 1..Len(Channels) : Channels[k] = self

\* A_all = jax.vmap(jax.jacfwd(rhs_point))(State_value.T): one N x N matrix
\* per compartment, each the Jacobian of rhs_point, which does not depend on
\* State_value[m]; no finite matrix (<<>>) when the voltage is not finite
A_all(self, V) ==
  [m \in 1..Len(V) |-> IF Finite(V[1]) THEN jac[RateLaw(self)][V[1] + 1] ELSE <<>>]

\* dS_val = rhs(State_value): column m at the voltage V[m]
dS_val(self, State_value, V) ==
  [m \in 1..Len(V) |-> rhs(self, State_value[m], One, V[m])]

\* b_val = dS_val.T - A_all @ State_value.T
b_val(self, State_value, V) ==
  [m \in 1..Len(V) |->
    IF ~Finite(V[1]) \/ ~Finite(V[m]) THEN NaNVec
    ELSE Only({ [i \in 1..N |-> dS[i] \ominus AS[i]] \o <<>> :
                dS \in {dS_val(self, <<State_value[m]>>, <<V[m]>>)[1]},
                AS \in {MatVec(A_all(self, V)[m], State_value[m])} })] \o <<>>

\* The explicit-Euler reference: S + dt * F(S), with the step of update_state
ExplicitEuler(self, get_dt, State_value, V) ==
  [m \in 1..Len(V) |->
    IF ~Finite(V[m]) \/ HasNaN(State_value[m]) THEN NaNVec
    ELSE Only({ [i \in 1..N |->
                  NDivInt((S[i] \odot Step(get_dt).den) \oplus (F[i] \odot Step(get_dt).num),
                          Step(get_dt).den)] \o <<>> :
                S \in {State_value[m]},
                F \in {rhs(self, State_value[m], One, V[m])} })] \o <<>>

\* the looked-up inverse of lhs
solve_lhs(self, V1, get_dt) == lhs_inv[RateLaw(self)][V1 + 1][get_dt]

\* S_new = jax.vmap(u.math.linalg.solve)(lhs, rhs_val).  The solve raises
\* nothing: a singular system or a non-finite entry gives non-finite values.
S_new(self, get_dt, State_value, V) ==
  [m \in 1..Len(V) |->
    IF ~Finite(V[1]) \/ ~Finite(V[m]) \/ HasNaN(State_value[m]) THEN NaNVec
    ELSE Only({ IF inv.sing THEN NaNVec
                ELSE [i \in 1..N |-> NDivInt(x[i], inv.den)] \o <<>> :
                inv \in {solve_lhs(self, V[1], get_dt)},
                x \in {IF solve_lhs(self, V[1], get_dt).sing THEN <<>>
                       ELSE MatVec(solve_lhs(self, V[1], get_dt).num,
                                   rhs_val(State_value[m], b_val(self, State_value, V)[m],
                                           Step(get_dt)))} })] \o <<>>

-----------------------------------------------------------------------------
(* The normalizer and the hooks, on the states s of one compartment (all    *)
(* array operations of these methods are elementwise over the batch axis)   *)

RECURSIVE SumOver(_, _, _)
\* total = 0. + sum of the clamped items of the list
SumOver(s, states, i) ==
  IF i > Len(states) THEN Zero ELSE NMax0(s[states[i]]) \oplus SumOver(s, states, i + 1)

\* normalize_states(states): a cell (an item with .value) is clamped at 0
\* and divided by total + 10**(-12) in place; an item without .value (the
\* plain array of the held remainder) only rebinds the loop variable: it
\* adds to total and the attribute keeps its value.
normalize_states(s, states, plain) ==
  LET total == SumOver(s, states, 1)
  IN [c \in NameSet |->
       IF InSeq(c, states) /\ c # plain
       THEN NDiv(NMax0(s[c]), total \oplus Eps)
       ELSE s[c]]

RECURSIVE SumCells(_, _, _)
SumCells(s, cells, i) ==
  IF i > Len(cells) THEN Zero ELSE s[cells[i]] \oplus SumCells(s, cells, i + 1)

\* 1 - (I1 + ... + C5): the remainder derived from the 12 cells of class k
Remainder(s, k) == One \ominus SumCells(s, Tracked(k), 1)

\* the list both classes pass to normalize_states in pre_integral
AllStates == <<"C1", "C2", "C3", "C4", "C5", "I1", "I2", "I3", "I4", "I5", "O", "B", "I6">>

\* pre_integral: derive the remainder from the cells, then normalize; the
\* hook of SodiumChannel, which INa_p3q_markov inherits, does nothing
PreIntegral(s, k) ==
  IF k \in MultiState
  THEN normalize_states([s EXCEPT ![Held(k)] = Remainder(s, k)], AllStates, Held(k))
  ELSE s

\* reset_state: INa_Rsg re-derives I6 and normalizes the 13 states;
\* INa_Rsg_B normalizes its 12 cells and leaves self.B alone; SodiumChannel
\* does nothing
ResetState(s, k) ==
  IF k = "INa_Rsg" THEN PreIntegral(s, k)
  ELSE IF k = "INa_Rsg_B" THEN normalize_states(s, Tracked(k), Held(k))
  ELSE s

ZeroState == [c \in NameSet |-> Zero]

\* a channel that starts closed instead of at zero
InitClosed(k) == [c \in NameSet |-> IF c \in {"C1", "p"} THEN One ELSE Zero]

\* init_state: every cell allocated at zero; INa_Rsg_B also sets self.B = 0
\* and normalizes its 12 cells, the other classes normalize nothing
InitState(k) ==
  IF k = "INa_Rsg_B" THEN normalize_states(ZeroState, Tracked(k), Held(k))
  ELSE ZeroState

\* stack([C1, ..., C5, I1, ..., I5, O, B]) of one compartment
Stack(s) == <<s.C1, s.C2, s.C3, s.C4, s.C5, s.I1, s.I2, s.I3, s.I4, s.I5, s.O, s.B>>

\* a write-back that exchanges O and B
WriteBackSwapped(s, x) ==
  [c \in NameSet |->
    IF c = "O" THEN x[12] ELSE IF c = "B" THEN x[11]
    ELSE IF \E i \in 1..N : Names[i] = c
    THEN x[CHOOSE i \in 1..N : Names[i] = c]
    ELSE s[c]]

\* the write-back of update_state: row i of S_new goes to cell i of the stack
WriteBack(s, x) ==
  [c \in NameSet |->
    IF \E i \in 1..N : Names[i] = c
    THEN x[CHOOSE i \in 1..N : Names[i] = c]
    ELSE s[c]]

\* derivatives that only drain: every state leaves at the rate fin and
\* arrives nowhere
DerivativeDrain(self, s, V, k) ==
  [c \in NameSet |-> Zero \ominus (s[c] \odot fin(self, V))]

\* compute_derivative: the derivative of every state from the cell values
\* and the held remainder, at the compartment's own voltage.  INa_Rsg
\* fills C1..C5, I1..I5, O, B; INa_Rsg_B fills C1..C5, I1..I5, O, I6.
Derivative(self, s, V, k) ==
  IF V = NaNVolt THEN [c \in NameSet |-> NaN]
  ELSE
  LET dC1 == ((s.I1 \odot bi1(self, V)) \oplus (s.C2 \odot b01(self, V)))
               \ominus (s.C1 \odot (fi1(self, V) + f01(self, V)))
      dC2 == ((s.C1 \odot f01(self, V)) \oplus (s.I2 \odot bi2(self, V)) \oplus (s.C3 \odot b02(self, V)))
               \ominus (s.C2 \odot (b01(self, V) + fi2(self, V) + f02(self, V)))
      dC3 == ((s.C2 \odot f02(self, V)) \oplus (s.I3 \odot bi3(self, V)) \oplus (s.C4 \odot b03(self, V)))
               \ominus (s.C3 \odot (b02(self, V) + fi3(self, V) + f03(self, V)))
      dC4 == ((s.C3 \odot f03(self, V)) \oplus (s.I4 \odot bi4(self, V)) \oplus (s.C5 \odot b04(self, V)))
               \ominus (s.C4 \odot (b03(self, V) + fi4(self, V) + f04(self, V)))
      dC5 == ((s.C4 \odot f04(self, V)) \oplus (s.I5 \odot bi5(self, V)) \oplus (s.O \odot b0O(self, V)))
               \ominus (s.C5 \odot (b04(self, V) + fi5(self, V) + f0O(self, V)))
      dI1 == ((s.C1 \odot fi1(self, V)) \oplus (s.I2 \odot b11(self, V)))
               \ominus (s.I1 \odot (bi1(self, V) + f11(self, V)))
      dI2 == ((s.I1 \odot f11(self, V)) \oplus (s.C2 \odot fi2(self, V)) \oplus (s.I3 \odot b12(self, V)))
               \ominus (s.I2 \odot (b11(self, V) + bi2(self, V) + f12(self, V)))
      dI3 == ((s.I2 \odot f12(self, V)) \oplus (s.C3 \odot fi3(self, V)) \oplus (s.I4 \odot b13(self, V)))
               \ominus (s.I3 \odot (b12(self, V) + bi3(self, V) + f13(self, V)))
      dI4 == ((s.I3 \odot f13(self, V)) \oplus (s.C4 \odot fi4(self, V)) \oplus (s.I5 \odot b14(self, V)))
               \ominus (s.I4 \odot (b13(self, V) + bi4(self, V) + f14(self, V)))
      dI5 == ((s.I4 \odot f14(self, V)) \oplus (s.C5 \odot fi5(self, V)) \oplus (s.I6 \odot b1n(self, V)))
               \ominus (s.I5 \odot (b14(self, V) + bi5(self, V) + f1n(self, V)))
      dO == ((s.C5 \odot f0O(self, V)) \oplus (s.B \odot bip(self, V)) \oplus (s.I6 \odot bin(self, V)))
               \ominus (s.O \odot (b0O(self, V) + fip(self, V) + fin(self, V)))
      dB == (s.O \odot fip(self, V)) \ominus (s.B \odot bip(self, V))
      dI6 == ((s.I5 \odot f1n(self, V)) \oplus (s.O \odot fin(self, V)))
               \ominus (s.I6 \odot (b1n(self, V) + bin(self, V)))
  IN [C1 |-> dC1, C2 |-> dC2, C3 |-> dC3, C4 |-> dC4, C5 |-> dC5,
      I1 |-> dI1, I2 |-> dI2, I3 |-> dI3, I4 |-> dI4, I5 |-> dI5, O |-> dO,
      B |-> IF k = "INa_Rsg" THEN dB ELSE Zero,
      I6 |-> IF k = "INa_Rsg" THEN Zero ELSE dI6]

\* the derivative slots after compute_derivative filled the slots of d
Slots(d, old) == [c \in NameSet |-> IF c \in DOMAIN d THEN d[c] ELSE old[c]]

\* V broadcast against the batch axis of the cells: an array of shape (1,)
\* is repeated over the M compartments
Broadcast(V, M) == IF Len(V) = M THEN V ELSE [m \in 1..M |-> V[1]]

\* an update_state that takes the implicit step in every class
UpdateStateAny(k, self, get_dt, s, V) ==
  Only({ [m \in 1..Len(V) |-> WriteBack(s[m], x[m])] :
         x \in {S_new(self, get_dt, [m \in 1..Len(V) |-> Stack(s[m])], V)} })

\* update_state on the cells s of the batch: the implicit step of INa_Rsg
\* and its write-back; every other class has the empty hook of SodiumChannel
UpdateState(k, self, get_dt, s, V) ==
  IF k = "INa_Rsg"
  THEN Only({ [m \in 1..Len(V) |-> WriteBack(s[m], x[m])] :
              x \in {S_new(self, get_dt, [m \in 1..Len(V) |-> Stack(s[m])], V)} })
  ELSE s

-----------------------------------------------------------------------------
(* INa_p3q_markov (sodium.py:132-203) with the rate functions of a subclass *)
(* (INa_HH1952, sodium.py:428-442) on the two voltage levels: integer rates *)
(* that rise or fall with V as the subclass's do                            *)

f_p_alpha(V) == exp(V, Float(10, 0))

f_p_beta(V) == 4 * exp(V, Float(-18, 0))

f_q_alpha(V) == exp(V, Float(-20, 0))

f_q_beta(V) == exp(V, Float(10, 0))

\* a reset that opens both gates
ResetOpen(s, V) == [s EXCEPT !["p"] = One, !["q"] = One]

\* reset_state: p and q at their steady state for V
ResetP3Q(s, V) ==
  IF V = NaNVolt THEN [s EXCEPT !["p"] = NaN, !["q"] = NaN]
  ELSE [s EXCEPT !["p"] = NRat(f_p_alpha(V), f_p_alpha(V) + f_p_beta(V)),
                 !["q"] = NRat(f_q_alpha(V), f_q_alpha(V) + f_q_beta(V))]

\* compute_derivative: phi * (alpha * (1 - p) - beta * p)
DerivativeP3Q(self, s, V) ==
  IF V = NaNVolt THEN [p |-> NaN, q |-> NaN]
  ELSE [p |-> (((One \ominus s["p"]) \odot f_p_alpha(V)) \ominus (s["p"] \odot f_p_beta(V))) \odot self.phi,
        q |-> (((One \ominus s["q"]) \odot f_q_alpha(V)) \ominus (s["q"] \odot f_q_beta(V))) \odot self.phi]

-----------------------------------------------------------------------------
(* current(V, Na)                                                           *)

\* self.g_max in mS / cm^2: the defaults of the constructors
g_max(k) == IF k = "INa_p3q_markov" THEN 90 ELSE 15

\* values of the reversal potential Na.E
Es == {1, 2}

\* a current that also counts the blocked state
CurrentLeak(k, s, V, E) ==
  IF V = NaNVolt THEN NaN
  ELSE (s["O"] \oplus s["B"] \oplus s["p"]) \odot (g_max(k) * (E - V))

\* g_max * p**3 * q * (Na.E - V), g_max * O * (Na.E - V)
Current(k, s, V, E) ==
  IF V = NaNVolt THEN NaN
  ELSE IF k = "INa_p3q_markov"
    THEN NMul(NMul(NMul(s["p"], s["p"]), s["p"]), s["q"]) \odot (g_max(k) * (E - V))
  ELSE s["O"] \odot (g_max(k) * (E - V))

-----------------------------------------------------------------------------
(* The 2-state channel of the end-to-end scenario: open and closed, no      *)
(* derived remainder, stepped by the algorithm of update_state.  Its 1000   *)
(* steps are followed in fixed point: an occupancy is an interval <<lo, hi>> *)
(* in units of 1/unit that holds the real value, widened by one unit at     *)
(* every step, which covers the rounding of a float step.                   *)

\* forward rate a and backward rate b per ms, 1/get_dt() per ms, the number
\* of steps, the fixed-point unit
TwoState == [a |-> 2, b |-> 1, per_ms |-> 100, steps |-> 1000, unit |-> 10000000]

\* the 2-state channel before its first step: open = 0, closed = 1
TwoStart ==
  [open |-> <<0, 0>>, closed |-> <<TwoState.unit, TwoState.unit>>, k |-> 0]

\* (x * p + y * q) / d for an interval x, y >= 0 and p, q, d > 0
Mix(x, p, y, q, d) ==
  << Max(0, ((x[1] * p + y[1] * q) \div d) - 1), ((x[2] * p + y[2] * q) \div d) + 2 >>

\* One implicit step with forward rate a and backward rate b: F(S) = A S with
\* A = ((-b, a), (b, -a)) on (open, closed), b_val = F(S) - A S = 0, and
\* (Id - dt A) S_next = S with dt = get_dt() / 2, solved by Cramer's rule:
\* with h = 1/dt, det = (h + a)(h + b) - a b = h (h + a + b),
\* open' = ((h + a) open + a closed) / (h + a + b),
\* closed' = (b open + (h + b) closed) / (h + a + b)
TwoSolve(S, a, b) ==
  LET h == (Step(1).den * TwoState.per_ms) \div Step(1).num
  IN [open |-> Mix(S.open, h + a, S.closed, a, h + a + b),
      closed |-> Mix(S.open, b, S.closed, h + b, h + a + b),
      k |-> S.k + 1]

\* the step with the two rates exchanged
TwoSwapped(S) == TwoSolve(S, TwoState.b, TwoState.a)

\* update_state of the 2-state channel
TwoStep(S) == TwoSolve(S, TwoState.a, TwoState.b)

\* nothing returned
NoValue == [V |-> <<>>, E |-> 0, I |-> <<>>]

\* nothing returned: the call raised the exception e
Raised(e) == [V |-> <<>>, E |-> 0, I |-> <<>>, raised |-> e]

\* self of an INa_p3q_markov that is of no subclass: the rate functions are
\* those of INa_p3q_markov itself
P3QBase ==
  [phi |-> 1,
   f_p_alpha |-> "NotImplementedError", f_p_beta |-> "NotImplementedError",
   f_q_alpha |-> "NotImplementedError", f_q_beta |-> "NotImplementedError"]

\* a channel none of whose methods raises
RaisesNothing(k, self, op) == ""

\* the exception the method op of a channel of class k raises before it
\* assigns anything, "" when it raises none: current of SodiumChannel;
\* reset_state and compute_derivative of INa_p3q_markov, which call
\* f_p_alpha first, when no subclass overrides the rate functions
Raises(k, self, op) ==
  IF k = "SodiumChannel" /\ op = "current" THEN "NotImplementedError"
  ELSE IF k = "INa_p3q_markov" /\ op \in {"reset_state", "compute_derivative"}
          /\ "f_p_alpha" \in DOMAIN self
    THEN self.f_p_alpha
  ELSE ""

\* what a call of op returns when it returns no value
Outcome(k, self, op) ==
  IF Raises(k, self, op) = "" THEN NoValue ELSE Raised(Raises(k, self, op))

-----------------------------------------------------------------------------
(* The lifecycle controller (the owner of the channel) and its calls        *)

\* the hooks of one integration step, in the controller's order
HookOrder == <<"pre_integral", "compute_derivative", "update_state", "post_integral">>

\* a permutation of the hooks that calls update_state before
\* compute_derivative
HooksSwapped(done) ==
  <<"pre_integral", "update_state", "compute_derivative", "post_integral">>[Len(done) + 1]

\* the hook the controller calls after the hooks in done
NextHook(done) == HookOrder[Len(done) + 1]

\* values an owner or an external integrator stores into the 12 cells of one
\* compartment, by position in Tracked: zeros, a closed channel, an open and
\* blocked mix, a negative occupancy, an occupancy above 1, a sum above 1
Seed(f) == [i \in 1..N |-> IF i \in DOMAIN f THEN f[i] ELSE Zero]

Seeds ==
  << Seed(<<>>),
     Seed(1 :> One),
     Seed(11 :> NRat(1, 2) @@ 12 :> NRat(1, 2)),
     Seed(5 :> NRat(-1, 2) @@ 10 :> One),
     Seed(11 :> NInt(2)),
     Seed(6 :> NRat(1, 2) @@ 8 :> NRat(1, 2) @@ 11 :> NRat(1, 2)) >>

\* values stored into p and q
SeedsPQ ==
  << <<Zero, Zero>>, <<NRat(1, 2), NRat(1, 2)>>, <<One, NRat(1, 3)>>, <<NInt(-1), NInt(2)>> >>

\* the values that can be stored into the cells of class k
SeedsOf(k) ==
  IF k \in MultiState THEN Seeds ELSE IF k = "INa_p3q_markov" THEN SeedsPQ ELSE <<>>

\* s with the cells of class k set to the values x
SetCells(s, k, x) ==
  [c \in NameSet |->
    IF InSeq(c, Tracked(k))
    THEN x[CHOOSE i \in 1..Len(Tracked(k)) : Tracked(k)[i] = c]
    ELSE s[c]]

-----------------------------------------------------------------------------
(* Array shapes.  A shape is the tuple of the extents of the axes; the     *)
(* shape () of a 0-d array is <<>>.                                        *)

RECURSIVE Prod(_, _)

\* the number of elements of an array of shape sh, from axis i on
Prod(sh, i) == IF i > Len(sh) THEN 1 ELSE sh[i] * Prod(sh, i + 1)

\* the shape of a.squeeze(): every axis of extent 1 removed
Squeeze(sh) == SelectSeq(sh, LAMBDA d : d # 1)

\* batch_size = None
None == 0

\* the shape of brainstate.init.param(u.math.zeros, self.varshape, batch_size)
ParamShape(varshape, batch_size) ==
  IF batch_size = None THEN varshape ELSE <<batch_size>> \o varshape

\* the shapes of a channel of the given size before init_state
NewDims(size) ==
  [size |-> size, alloc |-> FALSE, shape |-> <<>>, before |-> <<>>,
   raised |-> FALSE, last |-> "__init__", n |-> 0]

\* update_state on cells of shape sh with a V of v elements: the shape of a
\* cell after the call, and whether the call raised before its write-back.
\* State_value has M = len(squeeze) columns (len of a 0-d array raises) and
\* rows = 12 * elements / M rows; rhs multiplies rows of M elements with
\* rates of v elements; Id - A_dt and State_value.T + dt * b_val combine
\* rows = N with the 12 rows of rhs; the write-back reshapes to (1, M).
UpdateShape(sh, v) ==
  IF Squeeze(sh) = <<>> THEN [raised |-> TRUE, shape |-> sh]
  ELSE LET M == Squeeze(sh)[1]
           rows == (N * Prod(sh, 1)) \div M
       IN IF ~(v = M \/ v = 1) \/ rows # N
          THEN [raised |-> TRUE, shape |-> sh]
          ELSE [raised |-> FALSE, shape |-> <<1, M>>]

-----------------------------------------------------------------------------
(* PotassiumFixed (ion/potassium.py:45-70).  A node under the ion is a     *)
(* record: the root_type of its class, its depth under the ion (1: a       *)
(* direct child), whether its reset_state raises, and the calls of         *)
(* reset_state it received, each <<V, ion_info, batch_size>>.              *)

Node(root_type, depth, raises) ==
  [root_type |-> root_type, depth |-> depth, raises |-> raises, calls |-> <<>>]

\* self after __init__(size, E, C, **channels): E = -95 mV, C in 1e-7 mM
PotassiumFixed(channels) ==
  [E |-> -95, C |-> 400811, children |-> channels,
   raised |-> "", args |-> <<>>, n |-> 0]

\* the classes type(self) is a subclass of
Bases == {"PotassiumFixed", "Potassium", "Ion"}

\* brainstate.graph.nodes(self, Channel, allowed_hierarchy=(1, 1)): the
\* direct children, in order, as indices into self.children
Nodes(self) ==
  SelectSeq([i \in 1..Len(self.children) |-> i], LAMBDA i : self.children[i].depth = 1)

\* self.check_hierarchies(type(self), *nodes): whether it returns; it raises
\* when the root_type of a node is no base of type(self)
check_hierarchies(self, nodes) ==
  \A k \in 1..Len(nodes) : self.children[nodes[k]].root_type \in Bases

\* self.pack_info()
pack_info(self) == [E |-> self.E, C |-> self.C]

RECURSIVE ResetNodes(_, _, _, _)

\* for node in nodes: node.reset_state(V, ion_info, batch_size), from the
\* k-th node on; a node that raises ends the loop
ResetNodes(self, nodes, k, call) ==
  IF k > Len(nodes) THEN self
  ELSE LET called == [self EXCEPT !.children[nodes[k]].calls = Append(@, call)]
       IN IF self.children[nodes[k]].raises
          THEN [called EXCEPT !.raised = "NotImplementedError"]
          ELSE ResetNodes(called, nodes, k + 1, call)

\* a reset_state that resets the nodes without the check
ResetUnchecked(self, V, batch_size) ==
  ResetNodes([self EXCEPT !.raised = "", !.args = <<V, batch_size>>, !.n = self.n + 1],
             Nodes(self), 1, <<V, pack_info(self), batch_size>>)

\* PotassiumFixed.reset_state(V, batch_size)
IonResetState(self, V, batch_size) ==
  IF ~check_hierarchies(self, Nodes(self))
  THEN [self EXCEPT !.raised = "TypeError", !.args = <<V, batch_size>>, !.n = self.n + 1]
  ELSE ResetNodes([self EXCEPT !.raised = "", !.args = <<V, batch_size>>, !.n = self.n + 1],
                  Nodes(self), 1, <<V, pack_info(self), batch_size>>)

-----------------------------------------------------------------------------
(* Actions *)

\* what no call changes: the configuration, the tables, the references
Frozen == UNCHANGED <<kind, chan, env_dt, volts, shapes, jac, lhs_inv, euler, two, dims, ion>>

\* a lifecycle call: it returns nothing
Untouched == Frozen /\ I_out' = NoValue

\* the record of hook calls: a call is appended to the calls of the step
\* under way, or opens the record of a new step after a complete one
Called(h) == IF ran = HookOrder THEN <<h>> ELSE Append(ran, h)

\* the hooks still to call in the step under way
Pending == IF ran = HookOrder THEN <<>> ELSE ran

\* init_state(V, Na, batch_size)
init_state ==
  /\ life = "Uninitialized"
  /\ st' = [m \in Comps |-> InitState(kind)]
  /\ held_set' = (kind = "INa_Rsg_B")
  /\ life' = "Ready"
  /\ prev' = st
  /\ last' = "init_state"
  /\ UNCHANGED <<ran, steps, Vm, deriv, writes, resets>>
  /\ Untouched

\* a write of the values Seeds[i] into the cells of compartment m, between
\* steps
set_value(m, i) ==
  /\ life = "Ready"
  /\ writes < MaxWrites
  /\ i <= Len(SeedsOf(kind))
  /\ writes' = writes + 1
  /\ st' = [st EXCEPT ![m] = SetCells(st[m], kind, SeedsOf(kind)[i])]
  /\ prev' = st
  /\ last' = "set_value"
  /\ UNCHANGED <<life, ran, steps, Vm, held_set, deriv, resets>>
  /\ Untouched

\* reset_state(V, Na, batch_size)
reset_state ==
  /\ life = "Ready"
  /\ resets < MaxResets
  /\ resets' = resets + 1
  /\ \E v \in (IF kind = "INa_p3q_markov" THEN [Comps -> volts] ELSE {Vm}) :
       st' = [m \in Comps |->
               IF Raises(kind, chan, "reset_state") # "" THEN st[m]
               ELSE IF kind = "INa_p3q_markov" THEN ResetP3Q(st[m], v[m])
               ELSE ResetState(st[m], kind)]
  /\ held_set' = (held_set \/ kind = "INa_Rsg")
  /\ prev' = st
  /\ last' = "reset_state"
  /\ I_out' = Outcome(kind, chan, "reset_state")
  /\ UNCHANGED <<life, ran, steps, Vm, deriv, writes>>
  /\ Frozen

\* pre_integral(V, Na): the first hook of a step; the controller passes the
\* membrane voltage of the step to every hook
pre_integral ==
  /\ life = "Ready"
  /\ steps < MaxSteps
  /\ NextHook(Pending) = "pre_integral"
  /\ \E n \in shapes : \E v \in [1..n -> volts] : Vm' = v
  /\ st' = [m \in Comps |-> PreIntegral(st[m], kind)]
  /\ held_set' = (held_set \/ kind \in MultiState)
  /\ life' = "Stepping"
  /\ ran' = Called("pre_integral")
  /\ prev' = st
  /\ last' = "pre_integral"
  /\ UNCHANGED <<steps, deriv, writes, resets>>
  /\ Untouched

\* compute_derivative(V, Na)
compute_derivative ==
  /\ life = "Stepping"
  /\ NextHook(Pending) = "compute_derivative"
  /\ kind \in MultiState => held_set
  /\ deriv' = [m \in Comps |->
                 IF Raises(kind, chan, "compute_derivative") # "" THEN deriv[m]
                 ELSE IF kind \in MultiState
                 THEN Slots(Derivative(chan, st[m], Broadcast(Vm, BatchSize)[m], kind), deriv[m])
                 ELSE IF kind = "INa_p3q_markov"
                 THEN Slots(DerivativeP3Q(chan, st[m], Broadcast(Vm, BatchSize)[m]), deriv[m])
                 ELSE deriv[m]]
  /\ ran' = IF Raises(kind, chan, "compute_derivative") # "" THEN ran
            ELSE Called("compute_derivative")
  /\ prev' = st
  /\ last' = "compute_derivative"
  /\ I_out' = Outcome(kind, chan, "compute_derivative")
  /\ UNCHANGED <<life, steps, Vm, st, held_set, writes, resets>>
  /\ Frozen

\* update_state(V, Na): the implicit step of INa_Rsg; INa_Rsg_B inherits the
\* empty hook of SodiumChannel
update_state ==
  /\ life = "Stepping"
  /\ NextHook(Pending) = "update_state"
  /\ st' = UpdateState(kind, chan, env_dt, st, Broadcast(Vm, BatchSize))
  /\ ran' = Called("update_state")
  /\ prev' = st
  /\ last' = "update_state"
  /\ UNCHANGED <<life, steps, Vm, held_set, deriv, writes, resets>>
  /\ Untouched

\* post_integral(V, Na): empty; the step is complete
post_integral ==
  /\ life = "Stepping"
  /\ NextHook(Pending) = "post_integral"
  /\ ran' = Called("post_integral")
  /\ life' = "Ready"
  /\ steps' = steps + 1
  /\ prev' = st
  /\ last' = "post_integral"
  /\ UNCHANGED <<Vm, st, held_set, deriv, writes, resets>>
  /\ Untouched

\* current(V, Na): the value returned for a voltage and a reversal
\* potential; SodiumChannel.current raises NotImplementedError
current ==
  /\ life # "Uninitialized"
  /\ \E v \in [Comps -> volts], e \in Es :
       I_out' = IF Raises(kind, chan, "current") # "" THEN Outcome(kind, chan, "current")
                ELSE [V |-> v, E |-> e,
                      I |-> [m \in Comps |-> Current(kind, st[m], v[m], e)]]
  /\ prev' = st
  /\ last' = "current"
  /\ UNCHANGED <<life, ran, steps, Vm, st, held_set, deriv, writes, resets>>
  /\ Frozen

\* repeated implicit steps at a voltage held fixed: update_state on the
\* cells, and beside it the explicit-Euler reference from the same start
stiff_step ==
  /\ life = "Ready"
  /\ steps < MaxStiffSteps
  /\ \E v \in [Comps -> volts] : Vm' = IF steps = 0 THEN v ELSE Vm
  /\ st' = UpdateState(kind, chan, env_dt, st, Vm')
  /\ euler' = IF steps = 0
               THEN [start |-> [m \in Comps |-> Stack(st[m])],
                     at |-> ExplicitEuler(chan, env_dt, [m \in Comps |-> Stack(st[m])], Vm')]
               ELSE [start |-> euler.start,
                     at |-> ExplicitEuler(chan, env_dt, euler.at, Vm')]
  /\ steps' = steps + 1
  /\ prev' = st
  /\ last' = "update_state"
  /\ I_out' = NoValue
  /\ UNCHANGED <<life, ran, held_set, deriv, writes, resets>>
  /\ UNCHANGED <<kind, chan, env_dt, volts, shapes, jac, lhs_inv, two, dims, ion>>

\* one step of the 2-state channel at constant voltage
two_step ==
  /\ two.k < TwoState.steps
  /\ two' = TwoStep(two)
  /\ UNCHANGED <<kind, chan, env_dt, volts, shapes, jac, lhs_inv, life, ran, steps, Vm, st,
                 held_set, deriv, prev, last, writes, resets, I_out, euler, dims, ion>>

\* __init__ of a channel of a class in ks and of a size in sizes with a
\* rate law in laws, driven with voltages in vs in arrays of the lengths shp
ConstructUnder(ks, laws, vs, shp, sizes) ==
  /\ dims \in {NewDims(size) : size \in sizes}
  /\ jac = JacobianTable
  /\ lhs_inv = InverseTable
  /\ kind \in ks
  /\ chan \in laws
  /\ env_dt \in Dts
  /\ volts = vs
  /\ shapes = shp
  /\ I_out = NoValue
  /\ euler = [start |-> <<>>, at |-> <<>>]
  /\ two = TwoStart
  /\ life = "Uninitialized"
  /\ ran = <<>>
  /\ steps = 0
  /\ Vm = [m \in Comps |-> 0]
  /\ st = [m \in Comps |-> ZeroState]
  /\ held_set = FALSE
  /\ deriv = [m \in Comps |-> ZeroState]
  /\ prev = [m \in Comps |-> ZeroState]
  /\ last = "__init__"
  /\ writes = 0
  /\ resets = 0

\* the channel beside an ion without channels
ConstructSized(ks, laws, vs, shp, sizes) ==
  /\ ion = PotassiumFixed(<<>>)
  /\ ConstructUnder(ks, laws, vs, shp, sizes)

\* __init__ of a channel of size BatchSize
ConstructAs(ks, laws, vs, shp) == ConstructSized(ks, laws, vs, shp, {<<BatchSize>>})

\* a multi-state channel with the plain rate law
Construct(vs) == ConstructAs(MultiState, {Plain}, vs, {BatchSize})

\* a channel driven with finite voltages
Init == Construct(Volts)

\* a channel whose membrane voltage can also be non-finite
InitNF == Construct(Volts \cup {NaNVolt})

Next ==
  \/ init_state
  \/ \E m \in Comps, i \in 1..Len(Seeds) : set_value(m, i)
  \/ reset_state
  \/ pre_integral
  \/ compute_derivative
  \/ update_state
  \/ post_integral

Spec == Init /\ [][Next]_vars

SpecNF == InitNF /\ [][Next]_vars

\* a channel whose owner may pass a voltage array of shape (1,), whatever
\* the batch size of the cells
InitShape == ConstructAs(MultiState, {Plain}, Volts, {1, BatchSize})

SpecShape == InitShape /\ [][Next]_vars

\* a channel of any class, whose owner also reads the current
InitAll == ConstructAs(Kinds, {Plain}, Volts, {BatchSize})

NextAll == Next \/ current

SpecAll == InitAll /\ [][NextAll]_vars

\* INa_Rsg with the stiff rate law, stepped repeatedly at a fixed voltage
InitStiff == ConstructAs({"INa_Rsg"}, {Stiff}, Volts, {BatchSize})

NextStiff ==
  \/ init_state
  \/ \E m \in Comps, i \in 1..Len(Seeds) : set_value(m, i)
  \/ stiff_step

SpecStiff == InitStiff /\ [][NextStiff]_vars

\* the 2-state channel stepped at constant voltage
NextTwo == two_step

SpecTwo == Init /\ [][NextTwo]_vars

\* a rate law whose transitions all run at rates of their own: alfac = 2,
\* btfac = 2, no two of alpha, beta, gamma, delta, epsilon, zeta alike
Rich == Channel(3, 5, 7, 11, 13, 17, 1, 2, 16, 32, 1)

\* a multi-state channel with the rich rate law, whose derivatives are read
\* by an explicit integrator: update_state is not called
InitFlux == ConstructAs(MultiState, {Rich}, Volts, {BatchSize})

NextFlux ==
  \/ init_state
  \/ \E m \in Comps, i \in 1..Len(Seeds) : set_value(m, i)
  \/ reset_state
  \/ pre_integral
  \/ compute_derivative

SpecFlux == InitFlux /\ [][NextFlux]_vars

\* INa_Rsg with every transition rate zero
InitZero == ConstructAs({"INa_Rsg"}, {ZeroRates}, Volts, {BatchSize})

SpecZero == InitZero /\ [][Next]_vars

\* the sizes a channel is made with: one or two axes
Sizes == {<<a>> : a \in 1..MaxDim} \cup {<<a, b>> : a, b \in 1..MaxDim}

\* init_state(V, Na, batch_size), on the shapes: the cells are allocated
init_state_shape ==
  /\ ~dims.raised
  /\ dims.n = 0
  /\ \E batch_size \in {None} \cup 1..MaxDim :
       dims' = [dims EXCEPT !.alloc = TRUE,
                            !.before = dims.shape,
                            !.shape = ParamShape(dims.size, batch_size),
                            !.last = "init_state"]
  /\ UNCHANGED <<kind, chan, env_dt, volts, shapes, jac, lhs_inv, life, ran, steps, Vm, st,
                 held_set, deriv, prev, last, writes, resets, I_out, euler, two, ion>>

\* update_state(V, Na) of INa_Rsg, on the shapes, with a V of the shape of
\* the cells; a call that raised ends the run
update_state_shape ==
  /\ dims.alloc
  /\ ~dims.raised
  /\ dims.n < MaxShapeSteps
  /\ dims' = [dims EXCEPT !.before = dims.shape,
                          !.shape = UpdateShape(dims.shape, Prod(dims.shape, 1)).shape,
                          !.raised = UpdateShape(dims.shape, Prod(dims.shape, 1)).raised,
                          !.last = "update_state",
                          !.n = dims.n + 1]
  /\ UNCHANGED <<kind, chan, env_dt, volts, shapes, jac, lhs_inv, life, ran, steps, Vm, st,
                 held_set, deriv, prev, last, writes, resets, I_out, euler, two, ion>>

\* INa_Rsg of any size, allocated with any batch size and stepped
InitDims == ConstructSized({"INa_Rsg"}, {Plain}, Volts, {BatchSize}, Sizes)

NextDims == init_state_shape \/ update_state_shape

SpecDims == InitDims /\ [][NextDims]_vars

\* a SodiumChannel or an INa_p3q_markov, of no subclass or of one that
\* overrides the rate functions
InitBase == ConstructAs({"SodiumChannel", "INa_p3q_markov"}, {P3QBase, Plain}, Volts, {BatchSize})

SpecBase == InitBase /\ [][NextAll]_vars

\* INa_Rsg with a rate that differs between the voltages
InitSkew == ConstructAs({"INa_Rsg"}, {Skew}, Volts, {BatchSize})

SpecSkew == InitSkew /\ [][Next]_vars

\* the nodes an ion can hold: of a potassium or of a sodium class, a
\* direct child or a child of a child, with a reset_state that returns or
\* raises
NodeKinds ==
  {Node(r, d, x) : r \in {"Potassium", "Sodium"}, d \in 1..2, x \in BOOLEAN}

RECURSIVE Tuples(_, _)

\* the sequences over S of length n
Tuples(S, n) ==
  IF n = 0 THEN {<<>>} ELSE {Append(q, x) : q \in Tuples(S, n - 1), x \in S}

\* PotassiumFixed.reset_state(V, batch_size)
ion_reset_state ==
  /\ ion.n < MaxIonResets
  /\ \E V \in Volts, batch_size \in {None} \cup 1..BatchSize :
       ion' = IonResetState(ion, V, batch_size)
  /\ UNCHANGED <<kind, chan, env_dt, volts, shapes, jac, lhs_inv, life, ran, steps, Vm, st,
                 held_set, deriv, prev, last, writes, resets, I_out, euler, two, dims>>

\* a PotassiumFixed over up to MaxChildren nodes
InitIon ==
  /\ ion \in {PotassiumFixed(c) : c \in UNION {Tuples(NodeKinds, n) : n \in 0..MaxChildren}}
  /\ ConstructUnder({"INa_Rsg"}, {Plain}, Volts, {BatchSize}, {<<BatchSize>>})

NextIon == ion_reset_state

SpecIon == InitIon /\ [][NextIon]_vars

-----------------------------------------------------------------------------
(* Properties *)

Normalizing == {"init_state", "reset_state", "pre_integral"}

Stacks(q) == [m \in Comps |-> Stack(q[m])]

\* the implicit step has just run
Stepped == last = "update_state" /\ kind = "INa_Rsg"

\* C1: after a call of the normalizer from init_state, reset_state or
\* pre_integral, the tracked values plus the held remainder sum to 1 within
\* 1e-9 in every compartment.
C1_Conservation ==
  (last \in Normalizing /\ held_set) =>
    \A m \in Comps :
      NClose(SumCells(st[m], Tracked(kind), 1) \oplus st[m][Held(kind)], One)

\* C2: the batched step gives every compartment, within 1e-9, the value of a
\* step run on that compartment alone (a batch of one with its own state and
\* voltage).
C2_BatchIndependent ==
  Stepped =>
    \A m \in Comps :
      LET alone == S_new(chan, env_dt, <<Stack(prev[m])>>, <<Vm[m]>>)[1]
      IN \A i \in 1..N : NClose(Stack(st[m])[i], alone[i])

\* C3: the new state solves (I - dt*A) S_next = S + dt*b with dt = get_dt(),
\* A and b being the matrix and vector update_state derives (each row within
\* 1e-9).
C3_BackwardEuler ==
  Stepped =>
    \A m \in Comps :
      LET A == A_all(chan, Vm)[m]
          b == b_val(chan, Stacks(prev), Vm)[m]
          S == Stack(prev[m])
          Sn == Stack(st[m])
          ASn == MatVec(A, Sn)
      IN \A i \in 1..N :
           NClose(Sn[i] \ominus (ASn[i] \odot env_dt), S[i] \oplus (b[i] \odot env_dt))

\* C4: the matrix used for compartment m is the Jacobian of the right-hand
\* side at the voltage Vm[m] of that compartment.
C4_OwnVoltage ==
  Stepped => \A m \in Comps : A_all(chan, Vm)[m] = Jacobian(chan, Vm[m])

\* C5: after normalize_states returns, every tracked cell is >= 0 in every
\* compartment.
C5_NonNegative ==
  last \in Normalizing =>
    \A m \in Comps : \A i \in 1..N : NLe(Zero, st[m][Tracked(kind)[i]])

\* C5 witness: the normalizer has run on a compartment holding a negative cell
C5_Witness ==
  /\ last \in {"reset_state", "pre_integral"}
  /\ \E m \in Comps : \E i \in 1..N : NSign(prev[m][Tracked(kind)[i]]) < 0

\* the cells exist
Allocated == life # "Uninitialized"

\* C6 as stated: a second pre_integral leaves every tracked value exactly
\* equal to its value after the first.
C6_ExactFixedPoint ==
  Allocated =>
    \A m \in Comps :
      LET once == PreIntegral(st[m], kind)
          twice == PreIntegral(once, kind)
      IN \A i \in 1..N : NEq(twice[Tracked(kind)[i]], once[Tracked(kind)[i]])

\* C6 amended: a second pre_integral leaves every tracked value within 1e-9
\* of its value after the first, from every state of the cells.
C6_FixedPointWithinTol ==
  Allocated =>
    \A m \in Comps :
      LET once == PreIntegral(st[m], kind)
          twice == PreIntegral(once, kind)
      IN \A i \in 1..N : NClose(twice[Tracked(kind)[i]], once[Tracked(kind)[i]])

\* C6 witness: pre_integral has run on cells holding a negative value or
\* summing above 1, and running it again moves a tracked value
C6_Witness ==
  /\ last = "pre_integral"
  /\ \E m \in Comps :
       /\ \/ \E i \in 1..N : NSign(prev[m][Tracked(kind)[i]]) < 0
          \/ NSign(Remainder(prev[m], kind)) < 0
       /\ \E i \in 1..N :
            ~NEq(PreIntegral(st[m], kind)[Tracked(kind)[i]], st[m][Tracked(kind)[i]])

\* C7: at the voltage of the step, the A and b that update_state derives from
\* the state before the step are those it derives from the state after it
\* (A is the same by construction: it is a function of the voltage alone; b
\* within 1e-9).
C7_SameAb ==
  Stepped =>
    \A m \in Comps :
      LET before == b_val(chan, Stacks(prev), Vm)[m]
          after == b_val(chan, Stacks(st), Vm)[m]
      IN \A i \in 1..N : NClose(before[i], after[i])

C9_AbortsWithoutWrite ==
  (Stepped /\ \E m \in Comps : ~Finite(Vm[m])) =>
    \A m \in Comps : Stack(st[m]) = Stack(prev[m]) /\ ~HasNaN(Stack(st[m]))

\* C10: the remainder I6 that compute_derivative of INa_Rsg reads is, within
\* 1e-9, 1 minus the sum of the 12 tracked values at that moment.
C10_FreshRemainder ==
  (kind = "INa_Rsg" /\ last = "compute_derivative") =>
    \A m \in Comps : NClose(st[m].I6, Remainder(st[m], kind))

\* C11: after pre_integral or reset_state every occupancy the channel holds,
\* the 12 cells and the held remainder, lies in [0, 1] in every compartment.
C11_UnitInterval ==
  (last \in {"pre_integral", "reset_state"} /\ held_set) =>
    \A m \in Comps :
      \A c \in {Tracked(kind)[i] : i \in 1..N} \cup {Held(kind)} :
        NLe(Zero, st[m][c]) /\ NLe(st[m][c], One)

RECURSIVE Pow(_, _)
Pow(b, k) == IF k = 0 THEN 1 ELSE b * Pow(b, k - 1)

\* C12: with the stiff law (dominant eigenvalue of A about -404, explicit
\* Euler stable below a step of 2/404 < 0.005) and steps dt = get_dt()/2 of
\* 0.5 and 1, at least 100 times that limit: after every implicit step all
\* cells are finite and no larger in magnitude than 2, the largest stored
\* value, while the explicit-Euler iterate from a start with an occupied
\* open state has after k steps a component of magnitude at least 50^k times
\* that occupancy.
C12_StiffStable ==
  steps >= 1 =>
    \A m \in Comps :
      /\ \A i \in 1..N :
           ~Stack(st[m])[i].nan /\ NLe(NAbs(Stack(st[m])[i]), NInt(2))
      /\ NSign(euler.start[m][11]) > 0 =>
           \E i \in 1..N :
             NLe(euler.start[m][11] \odot Pow(50, steps), NAbs(euler.at[m][i]))

\* C12 witness: the stiff law has been stepped twice from an occupied open
\* state
C12_Witness ==
  /\ chan = Stiff
  /\ steps >= 2
  /\ \E m \in Comps : NSign(euler.start[m][11]) > 0

\* C13: after 1000 steps of the 2-state channel from open = 0, closed = 1,
\* open is within 1e-3 of 0.667 and closed within 1e-3 of 0.333.
C13_TwoStateSteady ==
  two.k = TwoState.steps =>
    /\ 666 * (TwoState.unit \div 1000) <= two.open[1]
    /\ two.open[2] <= 668 * (TwoState.unit \div 1000)
    /\ 332 * (TwoState.unit \div 1000) <= two.closed[1]
    /\ two.closed[2] <= 334 * (TwoState.unit \div 1000)

\* C13 witness: the 1000 steps have been taken
C13_Witness == two.k = TwoState.steps /\ two.open[1] > 0

\* the state s with every occupancy forgotten except those the current is
\* said to depend on: p and q, or the open state O
Through(k, s) ==
  [c \in NameSet |->
    IF c \in (IF k = "INa_p3q_markov" THEN {"p", "q"} ELSE {"O"}) THEN s[c] ELSE Zero]

\* C14: current(V, Na) of INa_p3q_markov, INa_Rsg and INa_Rsg_B changes no
\* cell value, no derivative and not the held remainder, and the value it
\* returns is a function of V, Na.E and of p and q, respectively O, alone
\* (so two calls on the same state and inputs return the same).
C14_CurrentPure ==
  [][(last' = "current" /\ kind # "SodiumChannel") =>
       /\ st' = st
       /\ deriv' = deriv
       /\ held_set' = held_set
       /\ \A m \in Comps :
            I_out'.I[m] = Current(kind, Through(kind, st[m]), I_out'.V[m], I_out'.E)]_vars

\* C14 witness: a non-zero current has been returned by a channel that also
\* holds a blocked occupancy
C14_Witness ==
  /\ last = "current"
  /\ kind \in MultiState
  /\ \E m \in Comps : NSign(I_out.I[m]) # 0 /\ NSign(st[m]["B"]) # 0

\* C15: after init_state every Differential State Cell of the channel (p, q;
\* the 12 cells of INa_Rsg; the 12 cells of INa_Rsg_B) holds zero in every
\* compartment.
C15_InitZero ==
  last = "init_state" =>
    \A m \in Comps :
      \A i \in 1..Len(Tracked(kind)) : st[m][Tracked(kind)[i]] = Zero

\* C15 witness: init_state of INa_Rsg_B has run, the class whose init_state
\* also normalizes the cells it allocated
C15_Witness == last = "init_state" /\ kind = "INa_Rsg_B" /\ life = "Ready"

\* C16: reset_state of INa_Rsg and INa_Rsg_B leaves as held remainder
\* 1 - sum(stored states) of the values stored when it was called; called on
\* the cells init_state left, it leaves the remainder 1 and cells that with
\* the remainder sum to 1.
C16_ResetRederives ==
  (last = "reset_state" /\ kind \in MultiState) =>
    \A m \in Comps :
      /\ st[m][Held(kind)] = Remainder(prev[m], kind)
      /\ (\A i \in 1..N : prev[m][Tracked(kind)[i]] = Zero) =>
           /\ st[m][Held(kind)] = One
           /\ SumCells(st[m], Tracked(kind), 1) \oplus st[m][Held(kind)] = One

\* C17: a hook given a voltage array whose length is not the batch size of
\* the cells fails at once: it leaves every cell value unchanged and the step
\* goes no further than its first hook.
C17_ShapeError ==
  (Len(Vm) # BatchSize /\ last \in {HookOrder[i] : i \in 1..Len(HookOrder)}) =>
    (st = prev /\ last = "pre_integral")

\* the quotient p / q of polynomials when q divides p with integer
\* coefficients, <<>> when it does not; acc holds the quotient so far
RECURSIVE PQuotFrom(_, _, _)

PQuotFrom(r, q, acc) ==
  IF r = <<>> THEN acc
  ELSE IF Len(r) < Len(q) \/ r[Len(r)] % Abs(q[Len(q)]) # 0 THEN <<>>
  ELSE LET k == Len(r) - Len(q)
           c == (r[Len(r)] * Sgn(q[Len(q)])) \div Abs(q[Len(q)])
           shifted == [i \in 1..Len(r) |-> IF i > k THEN c * q[i - k] ELSE 0]
       IN PQuotFrom(PTrim([i \in 1..Len(r) |-> r[i] - shifted[i]] \o <<>>), q,
                    [acc EXCEPT ![k + 1] = c])

PQuot(p, q) ==
  IF Len(p) < Len(q) THEN <<>>
  ELSE PQuotFrom(p, q, [i \in 1..(Len(p) - Len(q) + 1) |-> 0])

\* a + b over the denominator of a when the denominator of b divides it,
\* over the denominator of b when that of a divides it
NPlus(a, b) ==
  IF a.nan \/ b.nan \/ a.n = <<>> \/ b.n = <<>> THEN NAdd(a, b)
  ELSE LET qa == PQuot(a.d, b.d)
           qb == PQuot(b.d, a.d)
       IN IF qa # <<>> THEN Val(PAdd(a.n, PMul(b.n, qa)), a.d)
          ELSE IF qb # <<>> THEN Val(PAdd(PMul(a.n, qb), b.n), b.d)
          ELSE NAdd(a, b)

RECURSIVE NTotal(_, _)

\* x[i] + ... + x[Len(x)]
NTotal(x, i) == IF i > Len(x) THEN Zero ELSE NPlus(x[i], NTotal(x, i + 1))

\* a = b, by cross-multiplication
NSame(a, b) == ~a.nan /\ ~b.nan /\ PMul(a.n, b.d) = PMul(b.n, a.d)

\* the sum of the derivatives compute_derivative stored for the stored
\* states of class k
Stored(d, k) == NTotal([i \in 1..Len(Tracked(k)) |-> d[Tracked(k)[i]]], 1)

\* minus the net inflow of the remainder of class k from the cells s held
\* with the remainder r: (b1n + bin) * I6 - f1n * I5 - fin * O in INa_Rsg,
\* bip * B - fip * O in INa_Rsg_B
Outflow(self, s, r, V, k) ==
  IF k = "INa_Rsg"
  THEN ((r \odot (b1n(self, V) + bin(self, V))) \ominus (s.I5 \odot f1n(self, V)))
         \ominus (s.O \odot fin(self, V))
  ELSE (r \odot bip(self, V)) \ominus (s.O \odot fip(self, V))

\* C18: the derivatives of the 12 stored states sum to minus the net inflow
\* of the remainder: after compute_derivative the 12 derivative slots sum to
\* (b1n + bin) * I6 - f1n * I5 - fin * O in INa_Rsg and to bip * B - fip * O
\* in INa_Rsg_B, and the 12 rows of rhs of INa_Rsg sum to the same with
\* I6 = 1 - sum(S), at every voltage.
C18_FluxBalance ==
  (last = "compute_derivative" /\ kind \in MultiState) =>
    \A m \in Comps :
      /\ NSame(Stored(deriv[m], kind),
              Outflow(chan, st[m], st[m][Held(kind)], Broadcast(Vm, BatchSize)[m], kind))
      /\ kind = "INa_Rsg" =>
           \A v \in Volts :
             NSame(NTotal(rhs(chan, Stack(st[m]), One, v), 1),
                   Outflow(chan, st[m], Remainder(st[m], kind), v, kind))

\* C18 witness: compute_derivative of INa_Rsg_B has run on a compartment with
\* occupancy in the open state and in the remainder, the flows not in balance
C18_Witness ==
  /\ last = "compute_derivative"
  /\ kind = "INa_Rsg_B"
  /\ \E m \in Comps :
       /\ NSign(st[m].O) > 0
       /\ NSign(st[m].B) > 0
       /\ NSign(Stored(deriv[m], kind)) # 0

\* C19: update_state of INa_Rsg writes row i of the solved S_next into the
\* cell that was stacked into row i of S: with every transition rate zero
\* (A = 0, b = 0) update_state leaves the occupancy of every cell of every
\* compartment as it was.
C19_WriteBackInPlace ==
  (last = "update_state" /\ kind = "INa_Rsg" /\ chan = ZeroRates) =>
    \A m \in Comps : \A i \in 1..N : NEq(st[m][Names[i]], prev[m][Names[i]])

\* C19 witness: update_state of INa_Rsg with zero rates has run on a
\* compartment whose open and blocked occupancies differ and whose other
\* cells are not all empty
C19_Witness ==
  /\ last = "update_state"
  /\ kind = "INa_Rsg"
  /\ chan = ZeroRates
  /\ \E m \in Comps :
       /\ ~NEq(prev[m].O, prev[m].B)
       /\ NSign(prev[m].I1) > 0

\* C20: compute_derivative changes derivative slots only: every cell value
\* and the held remainder stay.  update_state of INa_Rsg changes cell values
\* only: the derivative slots and the held remainder stay, and the new cell
\* values are those of the implicit step from the old cell values, V and dt,
\* whatever the slots hold.  update_state of SodiumChannel, INa_p3q_markov
\* and INa_Rsg_B changes nothing.
C20_Frame ==
  [][/\ last' = "compute_derivative" =>
          /\ st' = st
          /\ held_set' = held_set
          /\ Vm' = Vm
     /\ (last' = "update_state" /\ kind = "INa_Rsg") =>
          /\ deriv' = deriv
          /\ held_set' = held_set
          /\ Vm' = Vm
          /\ \A m \in Comps :
               /\ st'[m][Held(kind)] = st[m][Held(kind)]
               /\ st'[m] = WriteBack(st[m],
                             S_new(chan, env_dt, Stacks(st), Broadcast(Vm, BatchSize))[m])
     /\ (last' = "update_state" /\ kind # "INa_Rsg") =>
          /\ st' = st
          /\ deriv' = deriv
          /\ held_set' = held_set
          /\ Vm' = Vm]_vars

\* C20 witness: update_state of INa_Rsg_B has run on cells with occupancy in
\* the open state, after compute_derivative filled a non-zero derivative
C20_Witness ==
  /\ last = "update_state"
  /\ kind = "INa_Rsg_B"
  /\ \E m \in Comps :
       /\ NSign(st[m].O) > 0
       /\ NSign(deriv[m].O) # 0

\* C21: update_state of INa_Rsg completes whatever the size and the batch
\* size of the cells, a single compartment and an absent batch axis
\* included, and leaves the value of a cell with the shape it had before.
C21_StepsAtEveryBatchSize ==
  dims.last = "update_state" => (~dims.raised /\ dims.shape = dims.before)

\* C22: current of SodiumChannel raises NotImplementedError.  reset_state
\* and compute_derivative of an INa_p3q_markov whose rate functions are not
\* overridden raise NotImplementedError and leave the values and the
\* derivatives of p and q as they were; with the rate functions overridden
\* they, and current, raise nothing.
C22_NotImplemented ==
  [][/\ (last' = "current" /\ kind = "SodiumChannel") =>
          I_out' = Raised("NotImplementedError")
     /\ (last' \in {"reset_state", "compute_derivative"}
           /\ kind = "INa_p3q_markov" /\ chan = P3QBase) =>
          /\ I_out' = Raised("NotImplementedError")
          /\ st' = st
          /\ deriv' = deriv
     /\ (last' \in {"reset_state", "compute_derivative", "current"}
           /\ kind = "INa_p3q_markov" /\ chan = Plain) =>
          \A e \in {"NotImplementedError"} : I_out' # Raised(e)]_vars

\* C22 witness: reset_state of an INa_p3q_markov with no rate functions has
\* raised, on gates that hold values written before
C22_Witness ==
  /\ last = "reset_state"
  /\ kind = "INa_p3q_markov"
  /\ chan = P3QBase
  /\ I_out = Raised("NotImplementedError")
  /\ \E m \in Comps : NSign(st[m]["p"]) > 0

\* C23: at the same cell values and voltage, and with the remainder I6
\* equal to 1 - sum(cells), the derivative compute_derivative of INa_Rsg
\* computes for each of the 12 cells is the row of that state in the rhs
\* that update_state linearizes: for the cells of every compartment, at
\* every voltage, and for the derivatives stored when the held remainder is
\* 1 - sum(cells).
C23_SameVectorField ==
  (last = "compute_derivative" /\ kind = "INa_Rsg") =>
    \A m \in Comps :
      /\ \A v \in Volts : \A i \in 1..N :
           NSame(Derivative(chan, [st[m] EXCEPT !.I6 = Remainder(st[m], kind)], v, kind)[Names[i]],
                 rhs(chan, Stack(st[m]), One, v)[i])
      /\ NSame(st[m].I6, Remainder(st[m], kind)) =>
           \A i \in 1..N :
             NSame(deriv[m][Names[i]],
                   rhs(chan, Stack(st[m]), One, Broadcast(Vm, BatchSize)[m])[i])

\* C23 witness: compute_derivative of INa_Rsg has run on a compartment with
\* occupancy in O and in inactivated states, and stored a non-zero
\* derivative for O
C23_Witness ==
  /\ last = "compute_derivative"
  /\ kind = "INa_Rsg"
  /\ \E m \in Comps :
       /\ NSign(st[m].O) > 0
       /\ NSign(st[m].I1) > 0
       /\ NSign(deriv[m].O) # 0

\* the 12 cells of s are occupancies: each >= 0, their sum <= 1
Occupancies(s) ==
  /\ \A i \in 1..N : NLe(Zero, s[Names[i]])
  /\ NLe(SumCells(s, Tracked("INa_Rsg"), 1), One)

\* C24: update_state of INa_Rsg, called on cells that are all >= 0 with sum
\* <= 1, leaves in every compartment cells that are all >= 0 with sum <= 1,
\* whatever dt and however many steps were taken before.
C24_StepKeepsOccupancies ==
  (last = "update_state" /\ kind = "INa_Rsg") =>
    \A m \in Comps : Occupancies(prev[m]) => Occupancies(st[m])

\* the gates of s are at the steady state of the voltage V
AtSteadyState(s, V) ==
  /\ s["p"] = NRat(f_p_alpha(V), f_p_alpha(V) + f_p_beta(V))
  /\ s["q"] = NRat(f_q_alpha(V), f_q_alpha(V) + f_q_beta(V))

\* C25: reset_state(V) of an INa_p3q_markov with rate functions leaves
\* p = alpha_p / (alpha_p + beta_p) and q = alpha_q / (alpha_q + beta_q) at
\* the voltage of the compartment, both in [0, 1], values for which
\* compute_derivative at that voltage gives zero for p and for q whatever
\* phi; and compute_derivative called on gates at the steady state of its V
\* stores zero for p and for q.
C25_ResetAtFixedPoint ==
  (kind = "INa_p3q_markov" /\ chan = Plain) =>
    /\ last = "reset_state" =>
         \A m \in Comps : \E v \in volts :
           /\ AtSteadyState(st[m], v)
           /\ NLe(Zero, st[m]["p"]) /\ NLe(st[m]["p"], One)
           /\ NLe(Zero, st[m]["q"]) /\ NLe(st[m]["q"], One)
           /\ \A phi \in 0..3 :
                /\ DerivativeP3Q([chan EXCEPT !.phi = phi], st[m], v)["p"] = Zero
                /\ DerivativeP3Q([chan EXCEPT !.phi = phi], st[m], v)["q"] = Zero
    /\ last = "compute_derivative" =>
         \A m \in Comps :
           AtSteadyState(st[m], Vm[m]) => (deriv[m]["p"] = Zero /\ deriv[m]["q"] = Zero)

\* C25 witness: compute_derivative has run on gates that reset_state left
\* at the steady state of the voltages of the step, which differ between
\* the first two compartments
C25_Witness ==
  /\ kind = "INa_p3q_markov"
  /\ chan = Plain
  /\ last = "compute_derivative"
  /\ Vm[1] # Vm[2]
  /\ \A m \in Comps : AtSteadyState(st[m], Vm[m]) /\ deriv[m]["p"] = Zero

\* the direct children of the ion
Direct(self) == {i \in 1..Len(self.children) : self.children[i].depth = 1}

====
